---- MODULE Spec2Model ----
(***************************************************************************)
(* Model of the acquisition pipeline of PCO_Camera                         *)
(* (src/instrumental/drivers/cameras/pco.py): the buffer pool, the         *)
(* acquisition queue, the frame wait and the capture sessions, against a   *)
(* model of the vendor driver and of the hardware that fills buffers.      *)
(*                                                                         *)
(* A method of PCO_Camera is an operator from a world record (the fields   *)
(* of the object, the state of the driver, and the bookkeeping of the      *)
(* call in progress) to a world record.  A raised exception is the field   *)
(* exc; every operator passes a world with a raised exception through      *)
(* unchanged, which is how the statements after a raise are skipped.       *)
(***************************************************************************)
EXTENDS Integers, Sequences, FiniteSets, TLC

\* ------------------------------------------------------------------ bounds
\* Largest n_frames a caller passes to start_capture.
MaxFrames == 2
\* Longest acquisition queue explored (start_live_video may enqueue again).
MaxQueue == 4
\* Most frames one get_captured_image collects before the model stops it.
MaxDrain == 3
\* Largest width and height of the frames whose size is computed on its own.
MaxWidth == 5
MaxHeight == 4

\* --------------------------------------------------------------- constants
WAIT_OBJECT_0 == 0
WAIT_TIMEOUT == 258
\* 0xFFFFFFFF, as the signed 32-bit integer of the same bits
WAIT_FAILED == -1

\* The sensor of the modelled device: GetSizes' x_max, y_max and the ROI
\* steps of its camera description.
SensorWidth == 8
SensorHeight == 4
wRoiHorStepsDESC == 2
wRoiVertStepsDESC == 2

None == "None"
\* self.last_buffer before the first successful wait (the attribute is not
\* set), and a cache that was never filled.
Unset == 0
\* A BufferInfo whose buffer was released to the driver.  The released
\* buffers are told apart by nothing the program does, so one value stands
\* for every one of them.
Stale == -1

Max(a, b) == IF a >= b THEN a ELSE b
Min(S) == CHOOSE x \in S : \A y \in S : x <= y
Range(s) == {s[i] : i \in 1..Len(s)}

\* Identities of the BufferInfo objects of the buffers the driver holds.
BufIds == 1..Max(MaxFrames, 2)

\* What the callers pass as keywords (after _handle_kwds filled the defaults).
\* The full sensor, an ROI off the horizontal step, one off the vertical
\* step, and one on the steps that is not symmetric about the centre.
ROIs == { <<0, 0, 8, 4>>, <<1, 0, 7, 4>>, <<0, 1, 8, 3>>, <<0, 0, 4, 4>> }
Bins == { <<1, 2>> }
Timeouts == { -1, 0, 1 }

\* ------------------------------------------------------------------- state
VARIABLES
    \* fields of the PCO_Camera object
    buffers, queue, buf_size, shutter, last_buffer,
    sizes_changed, cached_sizes, transfer_param_changed, cached_transfer_param,
    \* the driver and the device behind it
    recording, pending, signaled, errored, allocated, roi, binning, dataformat,
    \* the buffers whose event is signaled by a fill of a transfer submitted
    \* before their latest submission
    stale,
    \* the call in progress: get_captured_image is suspended in its wait
    pc, image_arrs,
    \* what the last step did, as its caller observes it
    op, result, frame_ready, returned, called, nwaits, freed_queued, armed, faulted,
    \* the last _allocate_buffers of the step, as the driver saw it
    alloc,
    \* the argument the last call was made with
    arg,
    \* a buffer was submitted whose capacity is not the size of the frame the
    \* device transfers
    misfit,
    \* a frame size computed on its own: the width, height and depth it is
    \* computed from, and the size once computed
    fs

selfvars == <<buffers, queue, buf_size, shutter, last_buffer, sizes_changed,
              cached_sizes, transfer_param_changed, cached_transfer_param>>
drvvars == <<recording, pending, signaled, errored, allocated, roi, binning,
             dataformat, stale>>
obsvars == <<op, result, frame_ready, returned, called, nwaits, freed_queued,
             armed, faulted, alloc, arg, misfit>>
vars == <<selfvars, drvvars, pc, image_arrs, obsvars, fs>>

\* No _allocate_buffers ran.  Of one that ran: the pool it found, the nbufs
\* it worked with, whether it returned, the pool and the queue it left, and
\* the driver calls it made to stop, cancel, free and allocate.
NoAlloc ==
    [ ran |-> FALSE, before |-> <<>>, n |-> 0, done |-> FALSE,
      after |-> <<>>, queue |-> <<>>, calls |-> <<>> ]

\* The world a method starts in.  fault is the number of the driver call
\* of this method that returns a non-zero code (0: none does).
World(fault) ==
    [ buffers |-> buffers, queue |-> queue, buf_size |-> buf_size,
      shutter |-> shutter, last_buffer |-> last_buffer,
      sizes_changed |-> sizes_changed, cached_sizes |-> cached_sizes,
      transfer_param_changed |-> transfer_param_changed,
      cached_transfer_param |-> cached_transfer_param,
      recording |-> recording, pending |-> pending, signaled |-> signaled,
      errored |-> errored, allocated |-> allocated, roi |-> roi,
      binning |-> binning, dataformat |-> dataformat, stale |-> stale,
      exc |-> None, ret |-> None, wait |-> None, suspended |-> FALSE,
      image_arrs |-> image_arrs, fault |-> fault,
      calls |-> 0, checked |-> 0, waits |-> 0, freed_queued |-> FALSE,
      alloc |-> NoAlloc, logging |-> FALSE, misfit |-> FALSE ]

OK(w) == w.exc = None
Raise(w, e) == [w EXCEPT !.exc = e]

\* ------------------------------------------------------------------ driver
\* NiceLib wraps each declared driver function: a non-zero return code is
\* raised as Error.  calls counts the driver calls of the method, checked
\* those whose code is checked.
plib(w) ==
    LET c == [w EXCEPT !.calls = @ + 1, !.checked = @ + 1]
    IN  IF c.checked = c.fault THEN Raise(c, "Error") ELSE c

\* GetTransferParameter and SetTransferParametersAuto call the library
\* directly and check no code.
unchecked(w) == [w EXCEPT !.calls = @ + 1]

\* The call a running _allocate_buffers makes is added to its record.
logged(w, call) ==
    IF w.logging THEN [w EXCEPT !.alloc.calls = Append(@, call)] ELSE w

SetRecordingState(w, state) ==
    IF ~OK(w) THEN w ELSE
    LET c == plib(logged(w, <<"SetRecordingState", state>>)) IN IF ~OK(c) THEN c ELSE [c EXCEPT !.recording = state]

CancelImages(w) ==
    IF ~OK(w) THEN w ELSE
    LET c == plib(logged(w, <<"CancelImages", 0>>)) IN IF ~OK(c) THEN c ELSE [c EXCEPT !.pending = <<>>]

\* AllocateBuffer(-1, size, NULL, NULL): a new buffer with a new, unsignaled
\* event; ret is the new BufferInfo.
AllocateBuffer(w, size) ==
    IF ~OK(w) THEN w ELSE
    LET c == plib(logged(w, <<"AllocateBuffer", -1>>))
        new == Min(BufIds \ (c.allocated \cup Range(c.buffers)))
    IN  IF ~OK(c) THEN c
        ELSE [c EXCEPT !.allocated = @ \cup {new}, !.signaled = @ \ {new},
                       !.errored = @ \ {new}, !.stale = @ \ {new},
                       !.ret = new]

\* FreeBuffer of a buffer the driver does not hold returns an error code.
\* self.last_buffer keeps referring to the BufferInfo of a released buffer.
\* freed_queued records a FreeBuffer called while self.queue is not empty or
\* the driver still holds submitted transfers.
FreeBuffer(w, num) ==
    IF ~OK(w) THEN w ELSE
    LET c == [plib(logged(w, <<"FreeBuffer", num>>)) EXCEPT
                 !.freed_queued = @ \/ w.queue # <<>> \/ w.pending # <<>>]
    IN  IF ~OK(c) THEN c
        ELSE IF num \notin c.allocated THEN Raise(c, "Error")
        ELSE [c EXCEPT !.allocated = @ \ {num}, !.signaled = @ \ {num},
                       !.errored = @ \ {num}, !.stale = @ \ {num},
                       !.last_buffer = IF @ = num THEN Stale ELSE @]

\* AddBufferEx(0, 0, num, width, height, depth): the buffer joins the
\* transfers the device will complete, in submission order.  The call leaves
\* the buffer's event as it is: an event still signaled is from now on the
\* event of an earlier submission.
AddBufferEx(w, num, width, height, depth) ==
    IF ~OK(w) THEN w ELSE
    LET c == plib(w)
    IN  IF ~OK(c) THEN c
        ELSE IF num \notin c.allocated THEN Raise(c, "Error")
        ELSE [c EXCEPT !.pending = Append(@, num),
                       !.stale = IF num \in c.signaled THEN @ \cup {num} ELSE @]

\* ret is drv_status: non-zero when the transfer into the buffer failed.
GetBufferStatus(w, num) ==
    IF ~OK(w) THEN w ELSE
    LET c == plib(w)
    IN  IF ~OK(c) THEN c
        ELSE IF num \notin c.allocated THEN Raise(c, "Error")
        ELSE [c EXCEPT !.ret = IF num \in c.errored THEN 1 ELSE 0]

\* The sizes the device reports for ROI r (1-based with both ends included)
\* and binning b: the ROI's width and height in binned pixels, and the sensor.
DeviceSizes(r, b) ==
    << (r[3] - r[1] + 1) \div b[1], (r[4] - r[2] + 1) \div b[2],
       SensorWidth, SensorHeight >>

\* ret is (x_act, y_act, x_max, y_max).
GetSizes(w) ==
    IF ~OK(w) THEN w ELSE
    LET c == plib(w)
    IN  IF ~OK(c) THEN c ELSE [c EXCEPT !.ret = DeviceSizes(c.roi, c.binning)]

\* The device rejects an ROI outside the sensor with code 0xA00A3001.
SetROI(w, x0, y0, x1, y1) ==
    IF ~OK(w) THEN w ELSE
    LET c == plib(w)
    IN  IF ~OK(c) THEN c
        ELSE IF ~(1 <= x0 /\ x0 <= x1 /\ x1 <= SensorWidth
                  /\ 1 <= y0 /\ y0 <= y1 /\ y1 <= SensorHeight)
             THEN Raise(c, "Error")
        ELSE [c EXCEPT !.roi = <<x0, y0, x1, y1>>]

\* ret is the ROI the device holds, 1-based with both ends included.
GetROI(w) ==
    IF ~OK(w) THEN w ELSE
    LET c == plib(w) IN IF ~OK(c) THEN c ELSE [c EXCEPT !.ret = c.roi]

SetBinning(w, h, v) ==
    IF ~OK(w) THEN w ELSE
    LET c == plib(w) IN IF ~OK(c) THEN c ELSE [c EXCEPT !.binning = <<h, v>>]

\* Driver functions with no effect on the modelled state: ArmCamera,
\* SetDelayExposureTime, SetFrameRate, CamLinkSetImageParameters, ForceTrigger.
ArmCamera(w) == IF ~OK(w) THEN w ELSE plib(w)
SetDelayExposureTime(w) == IF ~OK(w) THEN w ELSE plib(w)
SetFrameRate(w) == IF ~OK(w) THEN w ELSE plib(w)
CamLinkSetImageParameters(w, width, height) == IF ~OK(w) THEN w ELSE plib(w)
ForceTrigger(w) == IF ~OK(w) THEN w ELSE plib(w)

\* ret is the depth in bits of the data format the interface transfers.
GetTransferParameter(w) ==
    IF ~OK(w) THEN w ELSE [unchecked(w) EXCEPT !.ret = w.dataformat]

\* The device picks the data format for the image width: 16 bits, or 12 bits
\* packed for a wide image.
SetTransferParametersAuto(w) ==
    IF ~OK(w) THEN w ELSE
    [unchecked(w) EXCEPT !.dataformat =
        IF 2 * (w.roi[3] - w.roi[1] + 1) <= SensorWidth THEN 16 ELSE 12]

\* WaitForSingleObject(event, ms): the event of a buffer the driver holds is
\* signaled when the hardware has completed the buffer; the wait of ms
\* milliseconds ends with the event still unsignaled otherwise.  The event of
\* a freed buffer is no valid handle.  ret is the wait's code.
WaitForSingleObject(w, buf, ms) ==
    IF ~OK(w) THEN w ELSE
    [w EXCEPT !.waits = @ + 1,
              !.ret = IF buf \notin w.allocated THEN WAIT_FAILED
                      ELSE IF buf \in w.signaled THEN WAIT_OBJECT_0
                      ELSE WAIT_TIMEOUT]

ResetEvent(w, buf) ==
    IF ~OK(w) THEN w
    ELSE [w EXCEPT !.signaled = @ \ {buf}, !.stale = @ \ {buf}]

\* ------------------------------------------------------------ PCO_Camera
\* A method is a pipeline of steps, each an operator on the world the step
\* before it left.

\* self._cached_sizes = x_act, y_act, x_max, y_max; self._sizes_changed = False
store_sizes(w) ==
    IF ~OK(w) THEN w
    ELSE [w EXCEPT !.cached_sizes = w.ret, !.sizes_changed = FALSE]

\* Returns self._cached_sizes, which the callers read from the world.
_get_sizes(w) ==
    IF ~OK(w) THEN w
    ELSE IF w.sizes_changed THEN store_sizes(GetSizes(w))
    ELSE w

store_transfer_param(w) ==
    IF ~OK(w) THEN w
    ELSE [w EXCEPT !.cached_transfer_param = w.ret,
                   !.transfer_param_changed = FALSE]

_get_transfer_parameter(w) ==
    IF ~OK(w) THEN w
    ELSE IF w.transfer_param_changed
         THEN store_transfer_param(GetTransferParameter(w))
    ELSE w

\* depth_map[dataformat]: the data formats of the modelled device are all in
\* depth_map, and a format is modelled by its depth.
depth_of(w) ==
    IF ~OK(w) THEN w ELSE [w EXCEPT !.ret = w.cached_transfer_param]

\* ret is the depth.
_data_depth(w) == depth_of(_get_transfer_parameter(w))

\* (width * height * depth) / 16 * 2, in Python 2's integer division.
FrameBytes(width, height, depth) == ((width * height * depth) \div 16) * 2

frame_size_of(w) ==
    IF ~OK(w) THEN w
    ELSE [w EXCEPT !.ret = FrameBytes(w.cached_sizes[1], w.cached_sizes[2], w.ret)]

\* ret is the size in bytes.
_frame_size(w) == frame_size_of(_data_depth(_get_sizes(w)))

\* The size of the frame the device transfers now: its sizes and the depth of
\* its data format.
DeviceFrameBytes(w) ==
    FrameBytes(DeviceSizes(w.roi, w.binning)[1], DeviceSizes(w.roi, w.binning)[2],
               w.dataformat)

\* self.plib.AddBufferEx(0, 0, buf.num, width, height, depth)
submit(w, buf) ==
    IF ~OK(w) THEN w
    ELSE AddBufferEx([w EXCEPT !.misfit = @ \/ w.buf_size # DeviceFrameBytes(w)],
                     buf, w.cached_sizes[1], w.cached_sizes[2], w.ret)

\* self.queue.append(buf)
queue_append(w, buf) ==
    IF ~OK(w) THEN w ELSE [w EXCEPT !.queue = Append(@, buf)]

_push_on_queue(w, buf) ==
    queue_append(submit(_data_depth(_get_sizes(w)), buf), buf)

\* self.queue = []
queue_reset(w) == IF ~OK(w) THEN w ELSE [w EXCEPT !.queue = <<>>]

\* Mutant: the queue is not cleared, and the driver is not told to cancel.
_clear_queue_forgotten(w) == w

_clear_queue(w) == CancelImages(queue_reset(w))

\* for buf in self.buffers: FreeBuffer(buf.num), from the i-th buffer on.
RECURSIVE FreeEach(_, _)
FreeEach(w, i) ==
    IF ~OK(w) \/ i > Len(w.buffers) THEN w
    ELSE FreeEach(FreeBuffer(w, w.buffers[i]), i + 1)

\* self.buffers = []
buffers_reset(w) == IF ~OK(w) THEN w ELSE [w EXCEPT !.buffers = <<>>]

_free_buffers(w) == buffers_reset(FreeEach(w, 1))

\* self.buffers.append(BufferInfo(bufnum, buf_p, event))
buffers_append(w) ==
    IF ~OK(w) THEN w ELSE [w EXCEPT !.buffers = Append(@, w.ret)]

\* for i in range(nbufs): AllocateBuffer and append, n more times.
RECURSIVE AllocateEach(_, _)
AllocateEach(w, n) ==
    IF ~OK(w) \/ n <= 0 THEN w
    ELSE AllocateEach(buffers_append(AllocateBuffer(w, w.buf_size)), n - 1)

\* Mutant: any pool there is gives the number.
NBufs_of_any_pool(w, nbufs) ==
    IF nbufs # <<>> THEN nbufs[1]
    ELSE IF Len(w.buffers) > 0 THEN Len(w.buffers)
    ELSE IF w.shutter = "continuous" THEN 2
    ELSE 1

\* nbufs is <<n>>, or <<>> for nbufs=None.
NBufs(w, nbufs) ==
    IF nbufs # <<>> THEN nbufs[1]
    ELSE IF Len(w.buffers) > 1 THEN Len(w.buffers)
    ELSE IF w.shutter = "continuous" THEN 2
    ELSE 1

\* self._buf_size = self._frame_size()
set_buf_size(w) == IF ~OK(w) THEN w ELSE [w EXCEPT !.buf_size = w.ret]

\* The record of this _allocate_buffers is opened on entry and closed on
\* return.
alloc_begin(w, nbufs) ==
    IF ~OK(w) THEN w
    ELSE [w EXCEPT !.logging = TRUE,
                   !.alloc = [NoAlloc EXCEPT !.ran = TRUE, !.before = w.buffers,
                                             !.n = NBufs(w, nbufs)]]

alloc_end(w) ==
    IF ~OK(w) THEN w
    ELSE [w EXCEPT !.logging = FALSE, !.alloc.done = TRUE,
                   !.alloc.after = w.buffers, !.alloc.queue = w.queue]

\* Mutant: the device is not stopped first.
_allocate_buffers_unstopped(w, nbufs) ==
    alloc_end(AllocateEach(
        set_buf_size(_frame_size(
            _free_buffers(_clear_queue(alloc_begin(w, nbufs))))),
        NBufs(w, nbufs)))

_allocate_buffers(w, nbufs) ==
    alloc_end(AllocateEach(
        set_buf_size(_frame_size(
            _free_buffers(_clear_queue(SetRecordingState(alloc_begin(w, nbufs), 0))))),
        NBufs(w, nbufs)))

\* for buf in self.buffers: self._push_on_queue(buf), from the i-th buffer on.
RECURSIVE PushEach(_, _)
PushEach(w, i) ==
    IF ~OK(w) \/ i > Len(w.buffers) THEN w
    ELSE PushEach(_push_on_queue(w, w.buffers[i]), i + 1)

\* ---- _set_ROI, by its checks
\* Mutant: no check of the steps.
roi_steps_unchecked(w, x0, y0, x1, y1) == w

roi_steps(w, x0, y0, x1, y1) ==
    IF ~OK(w) THEN w
    ELSE IF x0 % wRoiHorStepsDESC # 0 \/ x1 % wRoiHorStepsDESC # 0
         THEN Raise(w, "Error")
    ELSE IF y0 % wRoiVertStepsDESC # 0 \/ y1 % wRoiVertStepsDESC # 0
         THEN Raise(w, "Error")
    ELSE w

\* cx = self.max_width / 2; c0, c1 are x0, x1 (and then y0, y1 against
\* self.max_height, i = 4).
roi_symmetric(w, i, c0, c1) ==
    IF ~OK(w) THEN w
    ELSE IF (w.cached_sizes[i] \div 2) - c0 # c1 - (w.cached_sizes[i] \div 2)
         THEN Raise(w, "Error")
    ELSE w

\* self._sizes_changed = True
mark_sizes_changed(w) ==
    IF ~OK(w) THEN w ELSE [w EXCEPT !.sizes_changed = TRUE]

\* self.max_width and self.max_height each go through _get_sizes.
_set_ROI(w, x0, y0, x1, y1) ==
    mark_sizes_changed(
        SetROI(roi_symmetric(_get_sizes(
                   roi_symmetric(_get_sizes(roi_steps(w, x0, y0, x1, y1)),
                                 3, x0, x1)),
                   4, y0, y1),
               x0 + 1, y0 + 1, x1, y1))

\* return x0-1, y0-1, x1, y1
roi_of(w) ==
    IF ~OK(w) THEN w
    ELSE [w EXCEPT !.ret = [ kind |-> "roi",
                             frames |-> <<w.ret[1] - 1, w.ret[2] - 1,
                                          w.ret[3], w.ret[4]>> ]]

_get_ROI(w) == roi_of(GetROI(w))

_set_binning(w, hbin, vbin) == SetBinning(w, hbin, vbin)

_set_delay_exposure_time(w) == SetDelayExposureTime(w)

_set_framerate(w) == SetFrameRate(ArmCamera(w))

\* CamLinkSetImageParameters(width, height) with the cached sizes: self.width
\* and self.height in start_capture, the sizes read before in start_live_video.
camlink(w) ==
    IF ~OK(w) THEN w
    ELSE CamLinkSetImageParameters(w, w.cached_sizes[1], w.cached_sizes[2])

\* kwds: n_frames, hbin, vbin, and the ROI left, top, right, bot.
start_capture(w, kwds) ==
    LET a == _set_binning(w, kwds.vbin, kwds.hbin)
        b == _set_ROI(a, kwds.left, kwds.top, kwds.right, kwds.bot)
        c == ArmCamera(_set_delay_exposure_time(b))
        d == ArmCamera(_allocate_buffers(c, <<kwds.n_frames>>))
        \* Prepare CameraLink interface
        e == ArmCamera(SetTransferParametersAuto(d))
        f == camlink(_get_sizes(_get_sizes(e)))
        \* Add buffers to the queue
        g == PushEach(f, 1)
    IN  ForceTrigger(SetRecordingState(g, 1))

\* self.shutter = 'continuous'
set_continuous(w) ==
    IF ~OK(w) THEN w ELSE [w EXCEPT !.shutter = "continuous"]

\* if self._frame_size() != self._buf_size or len(self.buffers) < 2:
\*     self._allocate_buffers(nbufs=2)
\* on the world _frame_size left, ret its result.
reallocate_if_needed(w) ==
    IF ~OK(w) THEN w
    ELSE IF w.ret # w.buf_size \/ Len(w.buffers) < 2
         THEN _allocate_buffers(w, <<2>>)
    ELSE w

start_live_video(w, kwds) ==
    LET a == _set_binning(w, kwds.vbin, kwds.hbin)
        b == _set_ROI(a, kwds.left, kwds.top, kwds.right, kwds.bot)
        \* Prepare CameraLink interface
        c == _get_sizes(ArmCamera(b))
        d == ArmCamera(_set_framerate(SetTransferParametersAuto(c)))
        e == set_continuous(camlink(d))
        f == ArmCamera(reallocate_if_needed(_frame_size(e)))
        \* Add all the buffers to the queue
        g == PushEach(f, 1)
    IN  ForceTrigger(SetRecordingState(g, 1))

\* self.shutter = None
set_shutter_none(w) == IF ~OK(w) THEN w ELSE [w EXCEPT !.shutter = None]

stop_live_video(w) ==
    set_shutter_none(_free_buffers(_clear_queue(SetRecordingState(w, 0))))

\* CloseCamera has no effect on the modelled state but to end the session.
CloseCamera(w) == IF ~OK(w) THEN w ELSE plib(w)

close(w) ==
    CloseCamera(_free_buffers(_clear_queue(SetRecordingState(w, 0))))

\* ---- wait_for_frame, by its branches
\* Mutant: an empty queue is reported as a timeout.
wait_empty_timeout(w) == [w EXCEPT !.ret = FALSE]

\* if not self.queue: raise Exception("No queued buffers!")
wait_empty(w) == Raise(w, "NoQueuedBuffers")

\* Mutant: the buffer is popped before its status is checked.
check_status_popped(w, buf) ==
    IF ~OK(w) THEN w
    ELSE IF w.ret # 0 THEN Raise([w EXCEPT !.queue = Tail(@)], "DriverStatus")
    ELSE ResetEvent(w, buf)

\* if drv_status != 0: raise Exception(...), else ResetEvent(buf.event), on
\* the world GetBufferStatus left.
check_status(w, buf) ==
    IF ~OK(w) THEN w
    ELSE IF w.ret # 0 THEN Raise(w, "DriverStatus")
    ELSE ResetEvent(w, buf)

\* ret == WAIT_OBJECT_0
wait_signaled(w, buf) == check_status(GetBufferStatus(w, buf), buf)

\* Mutant: a timeout gives the head buffer up.
wait_timed_out_popped(w) ==
    [w EXCEPT !.ret = FALSE, !.last_buffer = Head(w.queue), !.queue = Tail(w.queue)]

\* ret == WAIT_TIMEOUT: return False
wait_timed_out(w) == [w EXCEPT !.ret = FALSE]

\* Mutant: self.queue.pop() takes the newest buffer.
wait_pop_newest(w) ==
    IF ~OK(w) THEN w
    ELSE [w EXCEPT !.last_buffer = w.queue[Len(w.queue)],
                   !.queue = SubSeq(w.queue, 1, Len(w.queue) - 1)]

\* self.last_buffer = self.queue.pop(0)
wait_pop(w) ==
    IF ~OK(w) THEN w
    ELSE [w EXCEPT !.last_buffer = Head(w.queue), !.queue = Tail(w.queue)]

\* Mutant: the buffer is not submitted again.
wait_requeue_never(w, buf) == w

\* if self.shutter == 'continuous': self._push_on_queue(buf)
wait_requeue(w, buf) ==
    IF ~OK(w) THEN w
    ELSE IF w.shutter = "continuous" THEN _push_on_queue(w, buf)
    ELSE w

\* return True
return_true(w) == IF ~OK(w) THEN w ELSE [w EXCEPT !.ret = TRUE]

\* The branches on WaitForSingleObject's code.
wait_dispatch(w, buf) ==
    IF w.ret = WAIT_OBJECT_0
    THEN return_true(wait_requeue(wait_pop(wait_signaled(w, buf)), buf))
    ELSE IF w.ret = WAIT_TIMEOUT THEN wait_timed_out(w)
    ELSE Raise(w, "FailedToGrab")

\* wait is what the caller of wait_for_frame gets: True, False or the
\* exception raised.
wait_outcome(w) ==
    [w EXCEPT !.wait = IF ~OK(w) THEN w.exc
                       ELSE IF w.ret THEN "True" ELSE "False"]

\* timeout = max(0, timeout); buf = self.queue[0]
wait_for_frame(w, timeout) ==
    wait_outcome(
        IF w.queue = <<>> THEN wait_empty(w)
        ELSE wait_dispatch(WaitForSingleObject(w, Head(w.queue), Max(0, timeout)),
                           Head(w.queue)))

\* ---- get_captured_image, suspended in each of its waits
\* An exception in flight is raised again after the finally block, unless the
\* block raised one itself.
reraise(w, e) == IF ~OK(w) THEN w ELSE [w EXCEPT !.exc = e]

\* finally: stop recording and clean up queue
cleanup(w) ==
    reraise(_clear_queue(SetRecordingState([w EXCEPT !.exc = None], 0)), w.exc)

\* What get_captured_image returns: one frame, or the tuple of the frames.
Frames(arrs) ==
    [ kind |-> IF Len(arrs) = 1 THEN "frame" ELSE "tuple", frames |-> arrs ]
NoFrames == [ kind |-> None, frames |-> <<>> ]

return_frames(w) ==
    IF ~OK(w) THEN w ELSE [w EXCEPT !.ret = Frames(w.image_arrs)]

\* while self.queue: the next wait, or the way out through finally.
captured_loop(w) ==
    IF ~OK(w) THEN cleanup(w)
    ELSE IF w.queue # <<>> THEN [w EXCEPT !.suspended = TRUE]
    ELSE return_frames(cleanup(w))

\* image_arrs = [], after the sizes were read before the try block.
captured_try(w) ==
    IF ~OK(w) THEN w ELSE captured_loop([w EXCEPT !.image_arrs = <<>>])

\* Up to the first wait.
captured_enter(w) == captured_try(_frame_size(_get_sizes(w)))

\* if not frame_ready: raise TimeoutError, else image_arrs.append(array) of
\* the buffer that was the head of the queue.
collect(w, buf) ==
    IF ~OK(w) THEN w
    ELSE IF ~w.ret THEN Raise(w, "TimeoutError")
    ELSE [w EXCEPT !.image_arrs = Append(@, buf)]

\* One turn of the loop, from its wait to the next: remaining is
\* timeout - elapsed_time.
captured_turn(w, remaining) ==
    captured_loop(collect(wait_for_frame(w, remaining), Head(w.queue)))

\* ---- latest_frame
\* buf_info = self.last_buffer: the attribute is set by the first successful
\* wait only.
read_last_buffer(w) ==
    IF ~OK(w) THEN w
    ELSE IF w.last_buffer = Unset THEN Raise(w, "AttributeError")
    ELSE w

\* What the read of the memory of a released buffer does: it gives whatever
\* the memory holds now, or the process is stopped for the access.
Dangling == { "garbage", "crash" }

\* ffi.buffer(buf_info.address, self._frame_size()), read.
read_memory(w, dangling) ==
    IF ~OK(w) THEN w
    ELSE IF w.last_buffer = Stale /\ dangling = "crash" THEN Raise(w, "Crash")
    ELSE w

\* return array: the frame in the last-completed buffer.
return_latest(w) ==
    IF ~OK(w) THEN w ELSE [w EXCEPT !.ret = Frames(<<w.last_buffer>>)]

latest_frame(w, dangling) ==
    return_latest(_get_sizes(
        read_memory(_frame_size(read_last_buffer(w)), dangling)))

\* ------------------------------------------------------------------ system
\* After PCO_Camera.__init__ on a device at its full-sensor ROI: the sizes
\* were fetched once and _set_ROI(0, 0, max_width, max_height) marked them
\* changed again.
InitCamera ==
    /\ buffers = <<>> /\ queue = <<>> /\ buf_size = 0 /\ shutter = None
    /\ last_buffer = Unset
    /\ sizes_changed = TRUE
    /\ cached_sizes = <<SensorWidth, SensorHeight, SensorWidth, SensorHeight>>
    /\ transfer_param_changed = TRUE /\ cached_transfer_param = Unset
    /\ recording = 0 /\ pending = <<>> /\ signaled = {} /\ errored = {}
    /\ allocated = {} /\ roi = <<1, 1, SensorWidth, SensorHeight>>
    /\ binning = <<1, 1>> /\ dataformat = 16 /\ stale = {}
    /\ pc = "idle" /\ image_arrs = <<>>
    /\ op = "__init__" /\ result = "ok" /\ frame_ready = None
    /\ returned = NoFrames /\ called = FALSE /\ nwaits = 0
    /\ freed_queued = FALSE /\ armed = 0 /\ faulted = FALSE
    /\ alloc = NoAlloc /\ arg = <<>> /\ misfit = FALSE

Init ==
    /\ InitCamera
    /\ fs = [ in |-> <<SensorWidth, SensorHeight, 16>>, out |-> <<>> ]

\* The state a method leaves: the object, the driver, and what the caller
\* saw.  n is the n_frames of a start_capture.  No queue longer than MaxQueue
\* is explored, in the program or in the driver.
Commit(w, name, n) ==
    /\ Len(w.queue) <= MaxQueue /\ Len(w.pending) <= MaxQueue
    /\ buffers' = w.buffers /\ queue' = w.queue /\ buf_size' = w.buf_size
    /\ shutter' = w.shutter /\ last_buffer' = w.last_buffer
    /\ sizes_changed' = w.sizes_changed /\ cached_sizes' = w.cached_sizes
    /\ transfer_param_changed' = w.transfer_param_changed
    /\ cached_transfer_param' = w.cached_transfer_param
    /\ recording' = w.recording /\ pending' = w.pending
    /\ signaled' = w.signaled /\ errored' = w.errored
    /\ allocated' = w.allocated /\ roi' = w.roi /\ binning' = w.binning
    /\ dataformat' = w.dataformat /\ stale' = w.stale
    /\ pc' = IF name = "close" /\ OK(w) THEN "closed"
             ELSE IF w.exc = "Crash" THEN "closed"
             ELSE IF w.suspended THEN "drain"
             ELSE "idle"
    /\ image_arrs' = IF w.suspended THEN w.image_arrs ELSE <<>>
    /\ op' = name
    /\ result' = IF ~OK(w) THEN w.exc ELSE IF w.suspended THEN "running" ELSE "ok"
    /\ frame_ready' = w.wait
    /\ returned' = IF OK(w) /\ name = "get_captured_image" /\ ~w.suspended
                   THEN w.ret
                   ELSE IF OK(w) /\ name \in {"_get_ROI", "latest_frame"} THEN w.ret
                   ELSE NoFrames
    /\ called' = (w.calls > 0) /\ nwaits' = w.waits
    /\ freed_queued' = w.freed_queued
    /\ armed' = IF name = "start_capture" THEN (IF OK(w) THEN n ELSE 0)
                ELSE IF name = "get_captured_image" /\ w.suspended THEN armed
                ELSE 0
    /\ faulted' = (faulted \/ w.fault > 0)
    /\ alloc' = w.alloc /\ misfit' = w.misfit
    /\ fs' = fs

Kwds == { [ n_frames |-> n, hbin |-> b[1], vbin |-> b[2],
            left |-> r[1], top |-> r[2], right |-> r[3], bot |-> r[4] ] :
          n \in 1..MaxFrames, b \in Bins, r \in ROIs }

\* In each action, fault ranges over the driver calls the method makes: the
\* checked calls of its run without a fault.  The driver fails at most one
\* call in a run of the system (faulted: it has).
FaultsOf(w) == IF faulted THEN {0} ELSE 0..w.checked

StartCapture ==
    /\ pc = "idle"
    /\ \E kwds \in Kwds :
       \E fault \in FaultsOf(start_capture(World(0), kwds)) :
          /\ Commit(start_capture(World(fault), kwds), "start_capture", kwds.n_frames)
          /\ arg' = <<kwds.hbin, kwds.vbin>>

StartLiveVideo ==
    /\ pc = "idle"
    /\ \E kwds \in { k \in Kwds : k.n_frames = 1 } :
       \E fault \in FaultsOf(start_live_video(World(0), kwds)) :
          /\ Commit(start_live_video(World(fault), kwds), "start_live_video", 0)
          /\ arg' = <<kwds.hbin, kwds.vbin>>

StopLiveVideo ==
    /\ pc = "idle"
    /\ \E fault \in FaultsOf(stop_live_video(World(0))) :
          Commit(stop_live_video(World(fault)), "stop_live_video", 0)
    /\ arg' = <<>>

WaitForFrame ==
    /\ pc = "idle"
    /\ \E timeout \in Timeouts :
       \E fault \in FaultsOf(wait_for_frame(World(0), timeout)) :
          Commit(wait_for_frame(World(fault), timeout), "wait_for_frame", 0)
    /\ arg' = <<>>

GetCapturedImage ==
    /\ pc = "idle"
    /\ \E fault \in FaultsOf(captured_enter(World(0))) :
          Commit(captured_enter(World(fault)), "get_captured_image", 0)
    /\ arg' = <<>>

GetCapturedImageTurn ==
    /\ pc = "drain"
    /\ Len(image_arrs) < MaxDrain
    /\ \E remaining \in Timeouts :
       \E fault \in FaultsOf(captured_turn(World(0), remaining)) :
          Commit(captured_turn(World(fault), remaining), "get_captured_image", 0)
    /\ arg' = <<>>

Close ==
    /\ pc = "idle"
    /\ \E fault \in FaultsOf(close(World(0))) :
          Commit(close(World(fault)), "close", 0)
    /\ arg' = <<>>

\* The hardware completes the oldest transfer the driver holds and signals
\* the buffer's event, with a zero or a non-zero driver status.
HardwareFill ==
    /\ pc # "closed" /\ recording = 1 /\ pending # <<>>
    /\ \E failed \in BOOLEAN :
          LET buf == Head(pending)
          IN  /\ pending' = Tail(pending)
              /\ signaled' = signaled \cup {buf}
              /\ errored' = IF failed THEN errored \cup {buf} ELSE errored \ {buf}
              /\ stale' = stale \ {buf}
    /\ op' = "hardware_fill" /\ result' = "ok" /\ frame_ready' = None
    /\ returned' = NoFrames /\ called' = FALSE /\ nwaits' = 0
    /\ freed_queued' = FALSE /\ alloc' = NoAlloc /\ arg' = <<>>
    /\ misfit' = FALSE
    /\ UNCHANGED <<selfvars, recording, allocated, roi, binning, dataformat,
                   pc, image_arrs, armed, faulted, fs>>

Next ==
    \/ StartCapture
    \/ StartLiveVideo
    \/ StopLiveVideo
    \/ WaitForFrame
    \/ GetCapturedImage
    \/ GetCapturedImageTurn
    \/ Close
    \/ HardwareFill

Spec == Init /\ [][Next]_vars

\* ---- the methods the public ones are built from, called on their own
\* self._allocate_buffers(nbufs), nbufs=None included
AllocateBuffers ==
    /\ pc = "idle"
    /\ \E nbufs \in {<<>>} \cup { <<n>> : n \in 1..MaxFrames } :
       \E fault \in FaultsOf(_allocate_buffers(World(0), nbufs)) :
          /\ Commit(_allocate_buffers(World(fault), nbufs), "_allocate_buffers", 0)
          /\ arg' = nbufs

\* self._set_ROI(x0, y0, x1, y1)
SetROICall ==
    /\ pc = "idle"
    /\ \E r \in ROIs :
       \E fault \in FaultsOf(_set_ROI(World(0), r[1], r[2], r[3], r[4])) :
          /\ Commit(_set_ROI(World(fault), r[1], r[2], r[3], r[4]), "_set_ROI", 0)
          /\ arg' = r

\* self._get_ROI()
GetROICall ==
    /\ pc = "idle"
    /\ \E fault \in FaultsOf(_get_ROI(World(0))) :
          Commit(_get_ROI(World(fault)), "_get_ROI", 0)
    /\ arg' = <<>>

\* A caller of the private methods, who also starts and stops live video.
\* self._set_binning(hbin, vbin)
SetBinningCall ==
    /\ pc = "idle"
    /\ \E b \in Bins :
       \E fault \in FaultsOf(_set_binning(World(0), b[1], b[2])) :
          /\ Commit(_set_binning(World(fault), b[1], b[2]), "_set_binning", 0)
          /\ arg' = b

\* self._set_delay_exposure_time(delay, exposure)
SetDelayExposureTimeCall ==
    /\ pc = "idle"
    /\ \E fault \in FaultsOf(_set_delay_exposure_time(World(0))) :
          Commit(_set_delay_exposure_time(World(fault)),
                 "_set_delay_exposure_time", 0)
    /\ arg' = <<>>

\* A size query: self.width, self.height, self.max_width, self.max_height.
GetSizesCall ==
    /\ pc = "idle"
    /\ \E fault \in FaultsOf(_get_sizes(World(0))) :
          Commit(_get_sizes(World(fault)), "_get_sizes", 0)
    /\ arg' = <<>>

NextInternal ==
    \/ StartLiveVideo
    \/ StopLiveVideo
    \/ AllocateBuffers
    \/ SetBinningCall
    \/ SetDelayExposureTimeCall
    \/ GetSizesCall
    \/ SetROICall
    \/ GetROICall

SpecInternal == Init /\ [][NextInternal]_vars

\* ---- a live video session and its viewer, who calls latest_frame at any
\* time between the other calls
LatestFrame ==
    /\ pc = "idle"
    /\ \E dangling \in Dangling :
       \E fault \in FaultsOf(latest_frame(World(0), dangling)) :
          Commit(latest_frame(World(fault), dangling), "latest_frame", 0)
    /\ arg' = <<>>

NextLatest ==
    \/ StartLiveVideo
    \/ StopLiveVideo
    \/ WaitForFrame
    \/ LatestFrame
    \/ Close
    \/ HardwareFill

SpecLatest == Init /\ [][NextLatest]_vars

\* ---- the size computation of _frame_size, on every width, height and depth
Depths == { 8, 12, 16 }

InitFrameSize ==
    /\ InitCamera
    /\ fs \in [ in : (1..MaxWidth) \X (1..MaxHeight) \X Depths, out : {<<>>} ]

FrameSize ==
    /\ fs.out = <<>>
    /\ fs' = [fs EXCEPT !.out = <<FrameBytes(fs.in[1], fs.in[2], fs.in[3])>>]
    /\ UNCHANGED <<selfvars, drvvars, pc, image_arrs, obsvars>>

SpecFrameSize == InitFrameSize /\ [][FrameSize]_vars

\* ------------------------------------------------------------------ claims
\* A step in which wait_for_frame ran has frame_ready' set to what its
\* caller got; a step of any other kind sets it to None.  op' tells the
\* direct calls from the calls get_captured_image makes, whose step goes on
\* to the rest of the loop and to the finally block.

\* C1: in continuous mode a successful wait_for_frame leaves the queue as
\* long as it was: the head buffer retrieved is the new tail.
C1_ContinuousQueueLength ==
    [][ (frame_ready' = "True" /\ shutter = "continuous")
        => /\ Len(queue') = Len(queue)
           /\ queue' = Append(Tail(queue), Head(queue)) ]_vars

C1_Witness ==
    /\ op = "wait_for_frame" /\ frame_ready = "True" /\ shutter = "continuous"
    /\ Len(queue) = 2 /\ last_buffer = queue[2]

\* C2: start_capture(n_frames=k) then get_captured_image, every buffer
\* completed in time, returns the k frames in submission order (one frame
\* for k = 1) after k waits, and leaves a pool of k and an empty queue.
\* armed is the k of a session start_capture started and get_captured_image
\* has not finished with.
C2_OneShotReturnsKFrames ==
    [][ (op' = "get_captured_image" /\ armed > 0)
        => /\ result' = "running" => Len(image_arrs') < armed
           /\ result' = "ok" => /\ returned' = Frames(buffers')
                                /\ Len(buffers') = armed
                                /\ queue' = <<>> ]_vars

\* C3, as claimed: after a signaled wait with a non-zero driver status the
\* head buffer is no longer in the queue.
C3_ErrorPopsBuffer ==
    [][ (op' = "wait_for_frame" /\ frame_ready' = "DriverStatus")
        => \A i \in 1..Len(queue') : queue'[i] # Head(queue) ]_vars

\* C3, amended: after a signaled wait with a non-zero driver status the
\* buffer is still the head of the queue: the queue, the pool and the
\* last-completed buffer are as before, and the event is still signaled.
C3_ErrorKeepsBuffer ==
    [][ (op' = "wait_for_frame" /\ frame_ready' = "DriverStatus")
        => /\ Head(queue) \in signaled /\ Head(queue) \in errored
           /\ result' = "DriverStatus"
           /\ queue' = queue /\ buffers' = buffers
           /\ last_buffer' = last_buffer
           /\ Head(queue) \in signaled' ]_vars

C3_Witness ==
    /\ op = "wait_for_frame" /\ frame_ready = "DriverStatus"
    /\ queue # <<>> /\ Head(queue) \in errored

\* C4: a wait on an unsignaled head buffer returns False, no error, and a
\* wait that returns False leaves the queue and the last-completed buffer
\* as they were.
C4_TimeoutLeavesQueue ==
    [][ op' = "wait_for_frame"
        => /\ (queue # <<>> /\ Head(queue) \in allocated \ signaled)
              => frame_ready' = "False"
           /\ frame_ready' = "False"
              => /\ result' = "ok"
                 /\ queue # <<>> /\ Head(queue) \notin signaled
                 /\ queue' = queue /\ last_buffer' = last_buffer ]_vars

\* allocate(1), submit, wait before the hardware filled anything.
C4_Witness ==
    /\ op = "wait_for_frame" /\ frame_ready = "False"
    /\ Len(buffers) = 1 /\ queue = buffers /\ signaled = {}
    /\ last_buffer = Unset

\* C5: a wait on a signaled head buffer of zero status succeeds; a wait that
\* succeeds has reset the event of the head buffer, made it the
\* last-completed buffer, and removed it alone from the front of the queue.
C5_SuccessPopsHead ==
    [][ /\ (op' = "wait_for_frame" /\ faulted' = faulted /\ queue # <<>>
            /\ Head(queue) \in signaled \ errored)
           => frame_ready' = "True"
        /\ frame_ready' = "True"
           => /\ queue # <<>> /\ Head(queue) \in signaled \ errored
              /\ Head(queue) \notin signaled'
              /\ last_buffer' = Head(queue)
              /\ queue' = IF shutter = "continuous"
                          THEN Append(Tail(queue), Head(queue))
                          ELSE Tail(queue) ]_vars

\* The first of two captured frames was retrieved, the second is queued.
C5_Witness ==
    /\ op = "wait_for_frame" /\ frame_ready = "True" /\ shutter = None
    /\ Len(buffers) = 2 /\ last_buffer = buffers[1] /\ queue = <<buffers[2]>>

\* C6: however get_captured_image ends, recording is off and the queue is
\* empty.
C6_CleanupOnEveryExit ==
    (op = "get_captured_image" /\ result # "running")
    => recording = 0 /\ queue = <<>>

\* C7: the queue is a subsequence of the pool and holds no buffer twice.
C7_QueueWithinPool ==
    /\ \A i, j \in 1..Len(queue) : queue[i] = queue[j] => i = j
    /\ \E f \in [1..Len(queue) -> 1..Len(buffers)] :
          /\ \A i \in 1..Len(queue) : queue[i] = buffers[f[i]]
          /\ \A i, j \in 1..Len(queue) : i < j => f[i] < f[j]

\* C8: the last-completed buffer is not in the queue, so that no buffer is
\* both submitted and the caller's.
C8_ExclusiveOwner ==
    \A i \in 1..Len(queue) : queue[i] # last_buffer

\* C9: wait_for_frame on an empty queue raises the no-buffers error, waits
\* on no event, calls no driver function, and changes nothing.
C9_EmptyQueueFails ==
    [][ (op' = "wait_for_frame" /\ queue = <<>>)
        => /\ frame_ready' = "NoQueuedBuffers" /\ result' = "NoQueuedBuffers"
           /\ nwaits' = 0 /\ ~called'
           /\ UNCHANGED <<selfvars, drvvars>> ]_vars

C9_Witness ==
    /\ op = "wait_for_frame" /\ frame_ready = "NoQueuedBuffers"
    /\ buffers # <<>> /\ queue = <<>>

\* C10: no FreeBuffer is called while the queue is not empty or the driver
\* holds submitted transfers.
C10_FreeAfterCancel == ~freed_queued

\* stop_live_video released a pool whose buffers were queued and one of
\* which was the last-completed buffer.
C10_Witness ==
    /\ op = "stop_live_video" /\ result = "ok" /\ buffers = <<>>
    /\ allocated = {} /\ last_buffer = Stale

\* C11: _allocate_buffers stops the recording, cancels the transfers and
\* frees each buffer of the pool it found, in this order, before its first
\* AllocateBuffer; when it returns it made nbufs AllocateBuffer calls after
\* these, and left a pool of nbufs distinct buffers the driver holds and an
\* empty queue.
C11_AllocateOrder ==
    alloc.ran =>
    LET expected == <<<<"SetRecordingState", 0>>, <<"CancelImages", 0>>>>
                    \o [i \in 1..Len(alloc.before) |-> <<"FreeBuffer", alloc.before[i]>>]
        allocs == { i \in 1..Len(alloc.calls) : alloc.calls[i][1] = "AllocateBuffer" }
    IN  /\ \A i \in 1..Len(alloc.calls) :
              (\A j \in allocs : i < j) =>
                  i <= Len(expected) /\ alloc.calls[i] = expected[i]
        /\ \A j \in allocs : j > Len(expected)
        /\ alloc.done =>
              /\ alloc.calls =
                     expected \o [i \in 1..alloc.n |-> <<"AllocateBuffer", -1>>]
              /\ Len(alloc.after) = alloc.n
              /\ \A i, j \in 1..alloc.n : alloc.after[i] = alloc.after[j] => i = j
              /\ \A i \in 1..alloc.n : alloc.after[i] \in allocated
              /\ alloc.queue = <<>>

\* A pool of two buffers was replaced by a pool of one.
C11_Witness ==
    /\ alloc.done /\ Len(alloc.before) = 2 /\ alloc.n = 1
    /\ Len(alloc.calls) = 5 /\ result = "ok"

\* C12, as claimed: _allocate_buffers() allocates as many buffers as the pool
\* holds when there is a pool, of one buffer too, and otherwise 2 in
\* continuous mode and 1 if not.
C12_DefaultReusesPoolSize ==
    [][ (op' = "_allocate_buffers" /\ arg' = <<>> /\ alloc'.done)
        => Len(buffers') = IF buffers # <<>> THEN Len(buffers)
                           ELSE IF shutter = "continuous" THEN 2 ELSE 1 ]_vars

\* C12, amended: _allocate_buffers() allocates as many buffers as the pool
\* holds when the pool holds more than one, and otherwise (no pool, or a
\* pool of one) 2 in continuous mode and 1 if not.
C12_DefaultPoolSize ==
    [][ (op' = "_allocate_buffers" /\ arg' = <<>> /\ alloc'.done)
        => /\ Len(buffers') = IF Len(buffers) > 1 THEN Len(buffers)
                              ELSE IF shutter = "continuous" THEN 2 ELSE 1
           /\ Len(alloc'.after) = Len(buffers') /\ shutter' = shutter ]_vars

\* A default allocation in continuous mode found a pool of one and left two.
C12_Witness ==
    /\ op = "_allocate_buffers" /\ arg = <<>> /\ alloc.done
    /\ Len(alloc.before) = 1 /\ shutter = "continuous" /\ Len(buffers) = 2

\* C13: the frame size is ceil(width * height * depth / 16) * 2 bytes, and
\* so holds the width * height * depth bits of the frame.
C13_FrameSizeRoundsUp ==
    fs.out # <<>> =>
        /\ fs.out[1] = ((fs.in[1] * fs.in[2] * fs.in[3] + 15) \div 16) * 2
        /\ fs.out[1] * 8 >= fs.in[1] * fs.in[2] * fs.in[3]

\* C14: _set_ROI of an ROI on the steps and within the sensor succeeds
\* when no driver call fails (the modelled device asks for no symmetry), and
\* the _get_ROI after a _set_ROI that succeeded returns the ROI that was set.
C14_ROIRoundTrip ==
    [][ /\ (/\ op' = "_set_ROI" /\ faulted' = faulted
            /\ arg'[1] % wRoiHorStepsDESC = 0 /\ arg'[3] % wRoiHorStepsDESC = 0
            /\ arg'[2] % wRoiVertStepsDESC = 0 /\ arg'[4] % wRoiVertStepsDESC = 0
            /\ 0 <= arg'[1] /\ arg'[1] < arg'[3] /\ arg'[3] <= SensorWidth
            /\ 0 <= arg'[2] /\ arg'[2] < arg'[4] /\ arg'[4] <= SensorHeight)
           => result' = "ok"
        /\ (/\ op = "_set_ROI" /\ result = "ok"
            /\ op' = "_get_ROI" /\ result' = "ok")
           => returned'.frames = arg ]_vars

\* C15: _set_ROI of an ROI off the horizontal or the vertical step raises
\* Error with no driver call made, and leaves the ROI of the device, the
\* cached sizes and their dirty flag as they were.
C15_StepErrorChangesNothing ==
    [][ (/\ op' = "_set_ROI"
         /\ \/ arg'[1] % wRoiHorStepsDESC # 0 \/ arg'[3] % wRoiHorStepsDESC # 0
            \/ arg'[2] % wRoiVertStepsDESC # 0 \/ arg'[4] % wRoiVertStepsDESC # 0)
        => /\ result' = "Error" /\ ~called'
           /\ UNCHANGED <<selfvars, drvvars>> ]_vars

\* An ROI off the vertical step was refused while the cached sizes were clean.
C15_Witness ==
    /\ op = "_set_ROI" /\ arg = <<0, 1, 8, 3>> /\ result = "Error"
    /\ ~sizes_changed /\ ~called

\* C16: a successful _set_ROI, _set_binning or _set_delay_exposure_time
\* leaves the cached sizes marked dirty, and a size query leaves in the cache
\* the sizes the device reports then.
C16_SizesNeverStale ==
    [][ /\ (/\ op' \in {"_set_ROI", "_set_binning", "_set_delay_exposure_time"}
            /\ result' = "ok")
           => sizes_changed'
        /\ (op' = "_get_sizes" /\ result' = "ok")
           => cached_sizes' = DeviceSizes(roi', binning') ]_vars

\* C17: after a session was started, which sets the ROI and has the device
\* choose its transfer parameters again, the cached transfer parameters are
\* marked changed or are the ones the device has now.
C17_TransferParametersNeverStale ==
    [][ (op' \in {"start_capture", "start_live_video"} /\ result' = "ok")
        => transfer_param_changed' \/ cached_transfer_param' = dataformat' ]_vars

\* C18: no buffer is submitted to the driver whose capacity differs from the
\* size of the frame of the geometry and depth the device has then.
C18_CapacityIsFrameSize == ~misfit

\* C19: start_capture leaves a one-shot session: the shutter is not
\* continuous when it returns, and each successful wait of the session it
\* started, get_captured_image not yet back, leaves the queue shorter.
C19_OneShotAfterStartCapture ==
    [][ /\ (op' = "start_capture" /\ result' = "ok") => shutter' # "continuous"
        /\ (armed > 0 /\ frame_ready' = "True")
           => Len(queue') < Len(queue) ]_vars

\* C20: a session that started had the driver's SetBinning receive the
\* caller's hbin as the horizontal and vbin as the vertical factor.
C20_BinningUnswapped ==
    [][ (op' \in {"start_capture", "start_live_video"} /\ result' = "ok")
        => binning' = arg' ]_vars

\* C21: a wait_for_frame that succeeds, called directly or by
\* get_captured_image, reports a buffer the hardware filled after the
\* buffer's latest submission: the event it found signaled is not one left
\* signaled by a fill that came before that submission.
\* No buffer is twice in the queue the wait found, so that each queued
\* buffer has one submission the wait can be about.
C21_NoStaleCompletion ==
    [][ (/\ frame_ready' = "True"
         /\ \A i, j \in 1..Len(queue) : queue[i] = queue[j] => i = j)
        => Head(queue) \notin stale ]_vars

\* C22: whenever latest_frame is called, the last-completed buffer is
\* defined and is a buffer of the pool that the driver holds.
C22_LatestFrameReadsPool ==
    [][ op' = "latest_frame"
        => /\ last_buffer # Unset
           /\ last_buffer \in Range(buffers) \cap allocated ]_vars

====
